---- MODULE Spec2Model ----
(***************************************************************************)
(* A model of vimeo-download.py: the VimeoDownload job object (manifest    *)
(* fetch and base-URL probe, quality selection, segment assembly, muxing)  *)
(* and the batch driver of the __main__ block.                             *)
(*                                                                         *)
(* Conventions.  Python lists are sequences (index i of the code is index  *)
(* i+1 here).  URLs and file paths are sequences of string tokens, so that *)
(* concatenation is \o and rfind/basename/dirname/splitext are computed.   *)
(* Python's None is PyNone for object fields, NoPath for path fields and   *)
(* the string "None" for an absent quality argument.                       *)
(***************************************************************************)
EXTENDS Integers, Sequences, FiniteSets, TLC

VARIABLES
    rows,     \* the batch file: a sequence of [video, audio, output, url]
    master,   \* per row, the manifest its url serves (the environment)
    jobs,     \* per row, the VimeoDownload object, NoJob before construction
    files,    \* the file system: path -> content, for the files that exist
    dirs,     \* the directories that exist
    call,     \* the download_audio_video call in progress and its requests
    result,   \* the outcome of the last call that returned or raised
    driver,   \* the position of the caller (API user or __main__ driver)
    progress  \* per row, how far each of the three phases got (history)

vars == <<rows, master, jobs, files, dirs, call, result, driver, progress>>

(***************************************************************************)
(* Bounds of the model.                                                    *)
(***************************************************************************)
MaxRend == 2      \* renditions per kind in a selection manifest
MaxSegs == 2      \* segments per rendition in a download manifest
MaxChunks == 2    \* chunks a response body is iterated in
MaxCalls == 4     \* API calls made on one job
MaxRows == 2      \* rows of a batch file

(***************************************************************************)
(* Values.                                                                 *)
(***************************************************************************)
None == "None"
PyNone == [none |-> TRUE]
NoPath == <<>>
NoJob == [constructed |-> FALSE]
NoErr == "ok"

Names == <<"1", "2", "3", "4", "5", "6">>

Tok(i) == Names[i]

Range(s) == {s[i] : i \in DOMAIN s}

Max(S) == CHOOSE x \in S : \A y \in S : y <= x

Min(S) == CHOOSE x \in S : \A y \in S : x <= y

\* class AudioQuality(Enum)
AudioQualityNames == {"LOW", "MED", "HI"}

AudioQualityValue(q) ==
    CASE q = "LOW" -> 0
      [] q = "MED" -> 1
      [] q = "HI" -> 2

\* class VideoQuality(Enum)
VideoQualityNames ==
    {"V240", "V360", "V540", "V720", "V1080", "V1440", "V2160", "VMAX"}

VideoQualityValue(q) ==
    CASE q = "V240" -> 240
      [] q = "V360" -> 360
      [] q = "V540" -> 540
      [] q = "V720" -> 720
      [] q = "V1080" -> 1080
      [] q = "V1440" -> 1440
      [] q = "V2160" -> 2160
      [] q = "VMAX" -> 0

(***************************************************************************)
(* Python built-ins used by the code.                                      *)
(***************************************************************************)
\* list.index(x): the first position holding x
IndexOf(s, x) == Min({i \in DOMAIN s : s[i] = x})

RECURSIVE InsertSorted(_, _)
InsertSorted(s, x) ==
    IF s = <<>> THEN <<x>>
    ELSE IF x <= Head(s) THEN <<x>> \o s
    ELSE <<Head(s)>> \o InsertSorted(Tail(s), x)

RECURSIVE SortAsc(_)
\* list.sort()
SortAsc(s) == IF s = <<>> THEN <<>> ELSE InsertSorted(SortAsc(Tail(s)), Head(s))

Reverse(s) == [i \in 1..Len(s) |-> s[Len(s) + 1 - i]]

\* list.sort(reverse=True)
SortDesc(s) == Reverse(SortAsc(s))

\* str.rfind('/') + 1: the length of the prefix ending with the last "/"
RFindSlash(p) ==
    IF \E i \in DOMAIN p : p[i] = "/"
    THEN Max({i \in DOMAIN p : p[i] = "/"})
    ELSE 0

\* response.raise_for_status() raises for 4xx and 5xx only
RaisesForStatus(s) == s >= 400 /\ s < 600

RECURSIVE B64Decode(_)
\* base64.b64decode on a sequence of sextets: four sextets give three bytes
B64Decode(s) ==
    IF Len(s) < 4 THEN <<>>
    ELSE << s[1] * 4 + (s[2] \div 16),
            (s[2] % 16) * 16 + (s[3] \div 4),
            (s[3] % 4) * 64 + s[4] >> \o B64Decode(SubSeq(s, 5, Len(s)))

(***************************************************************************)
(* Manifests (master.json).                                                *)
(***************************************************************************)
Segments(n) == [k \in 1..n |-> [url |-> <<"segment-", Tok(k), ".m4s">>]]

VideoRendition(i, w, h, n) ==
    [id |-> Tok(i), width |-> w, height |-> h,
     base_url |-> <<"video", "/", Tok(i), "/">>,
     init_segment |-> <<i, 17, 34, 51>>,
     segments |-> Segments(n)]

AudioRendition(i, sr, br, n) ==
    [id |-> Tok(i), sample_rate |-> sr, bitrate |-> br,
     base_url |-> <<"audio", "/", Tok(i), "/">>,
     init_segment |-> <<i + 8, 5, 10, 15>>,
     segments |-> Segments(n)]

\* a manifest with the top-level base_url key
Manifest(b, v, a) == [base_url |-> b, video |-> v, audio |-> a]

\* a manifest without the top-level base_url key
ManifestNoBase(v, a) == [video |-> v, audio |-> a]

MasterUrl(i) == <<"https:", "/", "host", "/", "m", Tok(i), "/", "master.json">>

OutputFile(i) == <<"/", "dl", "/", "out", Tok(i), ".mp4">>

(***************************************************************************)
(* VimeoDownload.__init__                                                  *)
(***************************************************************************)
\* the URL the constructor probes
ProbeUrl(url, m) ==
    SubSeq(url, 1, RFindSlash(url)) \o m.base_url \o m.video[1].base_url
        \o m.video[1].segments[1].url

\* the probe's verdict
ProbeOk(ps) == ps = 200

\* the object the constructor leaves, the error it raises, the requests made
New(output, url, m, ms, parses, ps) ==
    LET trimmed == SubSeq(url, 1, RFindSlash(url))
        get1 == <<[url |-> url, status |-> ms]>>
        fields == [constructed |-> TRUE,
                   output_file |-> output,
                   master_json_url |-> url,
                   master_json |-> m,
                   base_url |-> trimmed,
                   audio_json |-> PyNone,
                   video_json |-> PyNone,
                   audio_file |-> NoPath,
                   video_file |-> NoPath]
    IN  IF ms # 200 /\ RaisesForStatus(ms)
        THEN [err |-> "HTTPError", job |-> NoJob, requests |-> get1]
        ELSE IF ~parses
        THEN [err |-> "JSONDecodeError", job |-> NoJob, requests |-> get1]
        ELSE IF "base_url" \notin DOMAIN m
        THEN [err |-> "KeyError", job |-> NoJob, requests |-> get1]
        ELSE [err |-> NoErr,
              job |-> [fields EXCEPT !.base_url =
                          IF ProbeOk(ps) THEN trimmed \o m.base_url ELSE trimmed],
              requests |-> get1 \o <<[url |-> ProbeUrl(url, m), status |-> ps]>>]

(***************************************************************************)
(* list_widths, list_heights, list_sample_rates, list_bitrates             *)
(***************************************************************************)
ListWidths(m) == [i \in 1..Len(m.video) |-> m.video[i].width]

ListHeights(m) == [i \in 1..Len(m.video) |-> m.video[i].height]

ListSampleRates(m) == [i \in 1..Len(m.audio) |-> m.audio[i].sample_rate]

ListBitrates(m) == [i \in 1..Len(m.audio) |-> m.audio[i].bitrate]

(***************************************************************************)
(* _ask_audio_quality, _ask_video_quality: the menu shown (each entry the  *)
(* pair of numbers the code formats into it) and the value returned for    *)
(* the entry the user picks.                                               *)
(***************************************************************************)
AudioMenu(m) ==
    LET samples == SortDesc(ListSampleRates(m))
        bitrates == SortDesc(ListBitrates(m))
    IN  [i \in 1..Len(samples) |-> <<samples[i], bitrates[i]>>]

AskAudioQuality(m, pick) == SortDesc(ListBitrates(m))[pick]

VideoMenu(m) ==
    LET heights == SortDesc(ListHeights(m))
        widths == SortDesc(ListWidths(m))
    IN  [i \in 1..Len(heights) |-> <<widths[i], heights[i]>>]

AskVideoQuality(m, pick) == SortDesc(ListHeights(m))[pick]

(***************************************************************************)
(* configure_quality                                                       *)
(***************************************************************************)
\* the argument check of configure_quality
MissingQuality(interactive, aq, vq) ==
    interactive = FALSE /\ (aq = None \/ vq = None)

\* AudioStep with HI read as the slot of its enum value, like LOW and MED
AudioStepFixedSlot(m, aq, apick) ==
    LET bitrates == SortAsc(ListBitrates(m))
    IN  IF aq = None
        THEN [err |-> NoErr, asked |-> TRUE, bitrate |-> AskAudioQuality(m, apick)]
        ELSE IF AudioQualityValue(aq) + 1 > Len(bitrates)
        THEN [err |-> "IndexError", asked |-> FALSE, bitrate |-> 0]
        ELSE [err |-> NoErr, asked |-> FALSE,
              bitrate |-> bitrates[AudioQualityValue(aq) + 1]]

\* AudioStep without the sort of the bitrates
AudioStepUnsorted(m, aq, apick) ==
    LET bitrates == ListBitrates(m)
    IN  IF aq = None
        THEN [err |-> NoErr, asked |-> TRUE, bitrate |-> AskAudioQuality(m, apick)]
        ELSE IF aq = "HI"
        THEN IF Len(bitrates) = 0
             THEN [err |-> "IndexError", asked |-> FALSE, bitrate |-> 0]
             ELSE [err |-> NoErr, asked |-> FALSE, bitrate |-> bitrates[Len(bitrates)]]
        ELSE IF AudioQualityValue(aq) + 1 > Len(bitrates)
        THEN [err |-> "IndexError", asked |-> FALSE, bitrate |-> 0]
        ELSE [err |-> NoErr, asked |-> FALSE,
              bitrate |-> bitrates[AudioQualityValue(aq) + 1]]

\* "Process audio quality": the bitrate chosen, or the error raised
AudioStep(m, aq, apick) ==
    LET bitrates == SortAsc(ListBitrates(m))
    IN  IF aq = None
        THEN [err |-> NoErr, asked |-> TRUE, bitrate |-> AskAudioQuality(m, apick)]
        ELSE IF aq = "HI"
        THEN IF Len(bitrates) = 0
             THEN [err |-> "IndexError", asked |-> FALSE, bitrate |-> 0]
             ELSE [err |-> NoErr, asked |-> FALSE, bitrate |-> bitrates[Len(bitrates)]]
        ELSE IF AudioQualityValue(aq) + 1 > Len(bitrates)
        THEN [err |-> "IndexError", asked |-> FALSE, bitrate |-> 0]
        ELSE [err |-> NoErr, asked |-> FALSE,
              bitrate |-> bitrates[AudioQualityValue(aq) + 1]]

\* InRange5 with the tolerance taken around the requested value
InRange5OfValue(height, value) ==
    value * 95 <= height * 100 /\ height * 100 <= value * 105

\* the fuzzy test (height * 0.95) <= value <= (height * 1.05), in hundredths.
\* No VideoQuality value is a multiple of 19 or of 21, so neither product
\* ever equals the value and the float comparison agrees with the exact one.
InRange5(height, value) ==
    height * 95 <= value * 100 /\ value * 100 <= height * 105

\* the position the fuzzy loop breaks at, 0 when it finds none
FuzzyPosition(heights, value) ==
    IF \E i \in DOMAIN heights : InRange5(heights[i], value)
    THEN Min({i \in DOMAIN heights : InRange5(heights[i], value)})
    ELSE 0

\* "Process video quality": the height chosen, or the error raised
VideoStep(m, interactive, vq, vpick) ==
    LET heights == ListHeights(m)
        ask == [err |-> NoErr, asked |-> TRUE, height |-> AskVideoQuality(m, vpick)]
    IN  IF vq = None THEN ask
        ELSE IF vq = "VMAX"
        THEN [err |-> NoErr, asked |-> FALSE, height |-> Max(Range(heights))]
        ELSE IF VideoQualityValue(vq) \in Range(heights)
        THEN [err |-> NoErr, asked |-> FALSE, height |-> VideoQualityValue(vq)]
        ELSE LET position == FuzzyPosition(heights, VideoQualityValue(vq))
             IN  IF position # 0
                 THEN [err |-> NoErr, asked |-> FALSE, height |-> heights[position]]
                 ELSE IF interactive = TRUE THEN ask
                 ELSE [err |-> "ValueError", asked |-> FALSE, height |-> 0]

\* "Set audio quality"
BindAudio(job, bitrate) ==
    [job EXCEPT !.audio_json =
        job.master_json.audio[IndexOf(ListBitrates(job.master_json), bitrate)]]

\* "Set video quality"
BindVideo(job, height) ==
    [job EXCEPT !.video_json =
        job.master_json.video[IndexOf(ListHeights(job.master_json), height)]]

\* the whole method: the job afterwards, the error raised, the menus shown
ConfigureQuality(job, interactive, aq, vq, apick, vpick) ==
    LET m == job.master_json
        quiet == [job |-> job, err |-> NoErr, audio_asked |-> FALSE,
                  video_asked |-> FALSE]
    IN  IF MissingQuality(interactive, aq, vq)
        THEN [quiet EXCEPT !.err = "ValueError"]
        ELSE LET a == AudioStep(m, aq, apick)
             IN  IF a.err # NoErr
                 THEN [quiet EXCEPT !.err = a.err]
                 ELSE LET job1 == BindAudio(job, a.bitrate)
                          v == VideoStep(m, interactive, vq, vpick)
                      IN  IF v.err # NoErr
                          THEN [job |-> job1, err |-> v.err,
                                audio_asked |-> a.asked, video_asked |-> FALSE]
                          ELSE [job |-> BindVideo(job1, v.height), err |-> NoErr,
                                audio_asked |-> a.asked, video_asked |-> v.asked]

(***************************************************************************)
(* State shared by the callers.                                            *)
(***************************************************************************)
Job(i) == jobs[i]

Idle == [job |-> 0, stage |-> "idle", seg |-> 0, chunk |-> 0, fetched |-> <<>>]

NoProgress ==
    [requests |-> <<>>, configure |-> "none", download |-> "none", combine |-> "none"]

Outcome(err) == IF err = NoErr THEN "ok" ELSE "failed"

Row(i) == [video |-> "", audio |-> "", output |-> OutputFile(i), url |-> MasterUrl(i)]

(***************************************************************************)
(* A call of the constructor for row i.  ms and ps are the statuses of the *)
(* manifest request and of the probe, parses tells whether the body is a   *)
(* JSON manifest; an input the constructor does not get to is not varied.  *)
(***************************************************************************)
ManifestStatuses == {200, 203, 404, 410}

Construct(i, ms, parses, ps) ==
    /\ call.stage = "idle"
    /\ ~Job(i).constructed
    /\ \E r \in {New(rows[i].output, rows[i].url, master[i], ms, parses, ps)} :
        /\ r.err = "HTTPError" => parses
        /\ r.err # NoErr => ps = 200
        /\ jobs' = [jobs EXCEPT ![i] = r.job]
        /\ result' = [op |-> "new", job |-> i, err |-> r.err]
        /\ progress' = [progress EXCEPT ![i].requests = r.requests]
    /\ UNCHANGED <<rows, master, files, dirs, call>>

(***************************************************************************)
(* A call of configure_quality on job i.  The picks are the entries the    *)
(* user selects in tty_menu; for a menu that is not shown the pick is 1    *)
(* and is not read.                                                        *)
(***************************************************************************)
\* the entries the user can pick: those of the menu when it is shown
Picks(shown, n) == IF shown THEN 1..n ELSE {1}

\* which menus a call shows (the picks play no part in that)
MenusShown(job, interactive, aq, vq) ==
    LET r == ConfigureQuality(job, interactive, aq, vq, 1, 1)
    IN  [audio |-> r.audio_asked, video |-> r.video_asked]

Configure(i, interactive, aq, vq) ==
    /\ call.stage = "idle"
    /\ Job(i).constructed
    /\ LET m == Job(i).master_json
           shown == MenusShown(Job(i), interactive, aq, vq)
       IN  \E apick \in Picks(shown.audio, Len(m.audio)),
              vpick \in Picks(shown.video, Len(m.video)) :
               \E r \in {ConfigureQuality(Job(i), interactive, aq, vq, apick, vpick)} :
                   /\ jobs' = [jobs EXCEPT ![i] = r.job]
                   /\ result' = [op |-> "configure_quality", job |-> i,
                                 err |-> r.err,
                                 interactive |-> interactive,
                                 audio_quality |-> aq, video_quality |-> vq,
                                 audio_asked |-> r.audio_asked,
                                 audio_menu |-> AudioMenu(m),
                                 audio_pick |-> apick,
                                 video_asked |-> r.video_asked,
                                 video_menu |-> VideoMenu(m),
                                 video_pick |-> vpick]
                   /\ progress' = [progress EXCEPT ![i].configure = Outcome(r.err)]
    /\ UNCHANGED <<rows, master, files, dirs, call>>

(***************************************************************************)
(* output_filename, output_directory and the track file names              *)
(***************************************************************************)
Extensions == {".mp4", ".m4a", ".mkv"}

\* os.path.basename(self.output_file)
OutputFilename(job) ==
    SubSeq(job.output_file, RFindSlash(job.output_file) + 1, Len(job.output_file))

\* os.path.dirname(os.path.abspath(self.output_file)), of an absolute path
OutputDirectory(job) ==
    SubSeq(job.output_file, 1, RFindSlash(job.output_file) - 1)

\* os.path.splitext(name)[0]
SplitextRoot(name) ==
    IF name # <<>> /\ name[Len(name)] \in Extensions
    THEN SubSeq(name, 1, Len(name) - 1)
    ELSE name

AudioFileName(job) ==
    OutputDirectory(job) \o <<"/">> \o SplitextRoot(OutputFilename(job))
        \o <<"_audio_", job.audio_json.id, ".m4a">>

VideoFileName(job) ==
    OutputDirectory(job) \o <<"/">> \o SplitextRoot(OutputFilename(job))
        \o <<"_video_", job.video_json.id, ".mp4">>

\* pathlib.Path(d).mkdir(parents=True, exist_ok=True)
Mkdir(ds, d) ==
    ds \cup {SubSeq(d, 1, n) : n \in {k \in 1..Len(d) : k = Len(d) \/ d[k + 1] = "/"}}

(***************************************************************************)
(* Files hold sequences of data units, each tagged with where it comes     *)
(* from: a decoded byte of an init segment, or a chunk of the body served  *)
(* at a url.                                                               *)
(***************************************************************************)
InitBytes(rendition) ==
    LET bytes == B64Decode(rendition.init_segment)
    IN  [j \in 1..Len(bytes) |-> [from |-> <<>>, data |-> bytes[j]]]

\* the body the server sends for a url, as the chunks the response yields
Body(url) == [c \in 1..MaxChunks |-> [from |-> url, data |-> c]]

\* open(path, 'wb') on a file left open without truncation
OpenAppend(fs, path) == IF path \in DOMAIN fs THEN fs ELSE (path :> <<>>) @@ fs

\* open(path, 'wb'): the file exists and is empty
OpenWb(fs, path) == (path :> <<>>) @@ fs

\* file.write(data)
Write(fs, path, data) == [fs EXCEPT ![path] = @ \o data]

\* os.remove(path)
Remove(fs, path) == [q \in DOMAIN fs \ {path} |-> fs[q]]

(***************************************************************************)
(* download_audio_video, one step per request and per chunk written        *)
(***************************************************************************)
SegStatuses == {200, 206, 404}

\* the guard of download_audio_video
NotConfigured(job) == job.audio_json = PyNone \/ job.video_json = PyNone

TrackJson(job, track) == IF track = "audio" THEN job.audio_json ELSE job.video_json

TrackFile(job, track) == IF track = "audio" THEN job.audio_file ELSE job.video_file

\* audio_base_url + segment['url'], video_base_url + segment['url']
SegmentUrl(job, track, k) ==
    job.base_url \o TrackJson(job, track).base_url
        \o TrackJson(job, track).segments[k].url

\* the guard, mkdir, and the audio file opened with its init segment
DownloadBegin(i) ==
    /\ call.stage = "idle"
    /\ Job(i).constructed
    /\ IF NotConfigured(Job(i))
       THEN /\ result' = [op |-> "download_audio_video", job |-> i,
                          err |-> "ValueError"]
            /\ call' = [Idle EXCEPT !.job = i]
            /\ progress' = [progress EXCEPT ![i].download =
                               IF @ = "none" THEN "refused" ELSE @]
            /\ UNCHANGED <<jobs, files, dirs>>
       ELSE /\ dirs' = Mkdir(dirs, OutputDirectory(Job(i)))
            /\ jobs' = [jobs EXCEPT ![i].audio_file = AudioFileName(Job(i))]
            /\ files' = Write(OpenWb(files, AudioFileName(Job(i))),
                              AudioFileName(Job(i)), InitBytes(Job(i).audio_json))
            /\ call' = [job |-> i, stage |-> "audio", seg |-> 1, chunk |-> 0,
                        fetched |-> <<>>]
            /\ result' = [op |-> "download_audio_video", job |-> i,
                          err |-> "running"]
            /\ progress' = [progress EXCEPT ![i].download = "started"]
    /\ UNCHANGED <<rows, master>>

\* requests.get of the next segment and the status test
FetchSegment(track, s) ==
    /\ call.stage = track
    /\ call.seg <= Len(TrackJson(Job(call.job), track).segments)
    /\ LET got == Append(call.fetched,
                         [track |-> track,
                          url |-> SegmentUrl(Job(call.job), track, call.seg),
                          status |-> s])
       IN  IF s # 200 /\ RaisesForStatus(s)
           THEN /\ call' = [call EXCEPT !.stage = "idle", !.fetched = got]
                /\ result' = [result EXCEPT !.err = "HTTPError"]
                /\ progress' = [progress EXCEPT ![call.job].download = "failed"]
           ELSE /\ call' = [call EXCEPT !.stage = track \o "_body", !.chunk = 1,
                                        !.fetched = got]
                /\ UNCHANGED <<result, progress>>
    /\ UNCHANGED <<rows, master, jobs, files, dirs>>

\* for chunk in response: file.write(chunk)
WriteChunk(track) ==
    /\ call.stage = track \o "_body"
    /\ files' = Write(files, TrackFile(Job(call.job), track),
                      <<Body(SegmentUrl(Job(call.job), track, call.seg))[call.chunk]>>)
    /\ call' = IF call.chunk < MaxChunks
               THEN [call EXCEPT !.chunk = @ + 1]
               ELSE [call EXCEPT !.stage = track, !.seg = @ + 1, !.chunk = 0]
    /\ UNCHANGED <<rows, master, jobs, dirs, result, progress>>

AudioFetch == \E s \in SegStatuses : FetchSegment("audio", s)

AudioWrite == WriteChunk("audio")

\* the audio file closed, the video file opened with its init segment
VideoOpen ==
    /\ call.stage = "audio"
    /\ call.seg > Len(Job(call.job).audio_json.segments)
    /\ jobs' = [jobs EXCEPT ![call.job].video_file = VideoFileName(Job(call.job))]
    /\ files' = Write(OpenWb(files, VideoFileName(Job(call.job))),
                      VideoFileName(Job(call.job)),
                      InitBytes(Job(call.job).video_json))
    /\ call' = [call EXCEPT !.stage = "video", !.seg = 1, !.chunk = 0]
    /\ UNCHANGED <<rows, master, dirs, result, progress>>

VideoFetch == \E s \in SegStatuses : FetchSegment("video", s)

VideoWrite == WriteChunk("video")

\* the video file closed: download_audio_video returns
DownloadEnd ==
    /\ call.stage = "video"
    /\ call.seg > Len(Job(call.job).video_json.segments)
    /\ call' = [call EXCEPT !.stage = "idle"]
    /\ result' = [result EXCEPT !.err = NoErr]
    /\ progress' = [progress EXCEPT ![call.job].download = "ok"]
    /\ UNCHANGED <<rows, master, jobs, files, dirs>>

DownloadStep ==
    AudioFetch \/ AudioWrite \/ VideoOpen \/ VideoFetch \/ VideoWrite \/ DownloadEnd

(***************************************************************************)
(* combine_audio_video.  ffmpeg exits with rc; with rc = 0 it has written  *)
(* the output file, otherwise it may or may not have left one (wrote).     *)
(***************************************************************************)
ExitCodes == {0, 1}

\* the first guard of combine_audio_video
NotDownloaded(job) == job.audio_file = NoPath \/ job.video_file = NoPath

\* the second guard of combine_audio_video
TrackMissing(fs, job) ==
    job.audio_file \notin DOMAIN fs \/ job.video_file \notin DOMAIN fs

\* what ffmpeg -y leaves at the output path
Ffmpeg(fs, job, rc, wrote) ==
    IF rc = 0
    THEN (job.output_file :> (fs[job.audio_file] \o fs[job.video_file])) @@ fs
    ELSE IF wrote THEN (job.output_file :> <<>>) @@ fs
    ELSE fs

\* "delete stream files"
DeleteStreams(fs, job) == Remove(Remove(fs, job.audio_file), job.video_file)

Combine(i, rc, wrote) ==
    /\ call.stage = "idle"
    /\ Job(i).constructed
    /\ IF NotDownloaded(Job(i)) \/ TrackMissing(files, Job(i))
       THEN /\ result' = [op |-> "combine_audio_video", job |-> i,
                          err |-> "ValueError", muxed |-> FALSE]
            /\ progress' = [progress EXCEPT ![i].combine =
                               IF @ = "none" THEN "refused" ELSE @]
            /\ UNCHANGED files
       ELSE /\ files' = DeleteStreams(Ffmpeg(files, Job(i), rc, wrote), Job(i))
            /\ result' = [op |-> "combine_audio_video", job |-> i,
                          err |-> NoErr, muxed |-> TRUE, exit |-> rc,
                          audio_file |-> Job(i).audio_file,
                          video_file |-> Job(i).video_file,
                          audio_in |-> files[Job(i).audio_file],
                          video_in |-> files[Job(i).video_file]]
            /\ progress' = [progress EXCEPT ![i].combine = "muxed"]
    /\ UNCHANGED <<rows, master, jobs, dirs, call>>

(***************************************************************************)
(* Quality selection on one constructed job: any sequence of               *)
(* configure_quality calls, over manifests with up to MaxRend renditions.  *)
(***************************************************************************)
\* (width, height) of the video renditions on offer
VideoPool == {<<426, 240>>, <<320, 240>>, <<405, 228>>, <<2020, 1136>>}

\* (sample_rate, bitrate) of the audio renditions on offer
AudioPool == {<<44100, 256000>>, <<48000, 128000>>, <<44100, 128000>>}

VideoLists ==
    {[i \in DOMAIN f |-> VideoRendition(i, f[i][1], f[i][2], 1)] :
        f \in UNION {[1..n -> VideoPool] : n \in 1..MaxRend}}

AudioLists ==
    {[i \in DOMAIN f |-> AudioRendition(i, f[i][1], f[i][2], 1)] :
        f \in UNION {[1..n -> AudioPool] : n \in 1..MaxRend}}

SharedBase == <<"base", "/">>

QManifests ==
    {Manifest(SharedBase, v, <<AudioRendition(1, 48000, 128000, 1),
                               AudioRendition(2, 44100, 256000, 1)>>) : v \in VideoLists}
    \cup {Manifest(SharedBase, <<VideoRendition(1, 1280, 720, 1)>>, a) : a \in AudioLists}

AudioArgs == AudioQualityNames \cup {None}

VideoArgs == {"V240", "V1080", "VMAX", None}

InitQ ==
    /\ rows = <<Row(1)>>
    /\ master \in {<<m>> : m \in QManifests}
    /\ jobs = <<New(rows[1].output, rows[1].url, master[1], 200, TRUE, 200).job>>
    /\ files = <<>>
    /\ dirs = {<<"/">>}
    /\ call = Idle
    /\ result = [op |-> "new", job |-> 1, err |-> NoErr]
    /\ driver = [phase |-> "api", idx |-> 0, request_list |-> <<>>]
    /\ progress = <<NoProgress>>

QConfigure ==
    \E interactive \in BOOLEAN, aq \in AudioArgs, vq \in VideoArgs :
        /\ driver.phase = "api"
        /\ Configure(1, interactive, aq, vq)
        /\ UNCHANGED driver

NextQ == QConfigure

SpecQ == InitQ /\ [][NextQ]_vars

(***************************************************************************)
(* One job used through its methods in any order, up to MaxCalls calls     *)
(* after construction, a call being made only after the last one ended.    *)
(***************************************************************************)
JobVideo == <<VideoRendition(1, 426, 240, MaxSegs), VideoRendition(2, 1920, 1080, 1)>>

JobAudio == <<AudioRendition(1, 48000, 128000, 1), AudioRendition(2, 44100, 256000, MaxSegs)>>

JobManifests ==
    {Manifest(SharedBase, JobVideo, JobAudio),
     Manifest(<<>>, JobVideo, JobAudio),
     ManifestNoBase(JobVideo, JobAudio)}

\* (interactive_fallback, audio_quality, video_quality) of the calls made
JobConfigs ==
    {<<FALSE, "LOW", "V240">>, <<FALSE, "HI", "V1080">>, <<FALSE, "HI", "V1440">>}

InitJ ==
    /\ rows = <<Row(1)>>
    /\ master \in {<<m>> : m \in JobManifests}
    /\ jobs = <<NoJob>>
    /\ files = <<>>
    /\ dirs = {<<"/">>}
    /\ call = Idle
    /\ result = [op |-> "none", job |-> 0, err |-> NoErr]
    /\ driver = [phase |-> "api", idx |-> 0, request_list |-> <<>>]
    /\ progress = <<NoProgress>>

Called == driver' = [driver EXCEPT !.idx = @ + 1]

ApiNew ==
    \E ms \in ManifestStatuses, parses \in BOOLEAN, ps \in SegStatuses :
        /\ driver.phase = "api"
        /\ Construct(1, ms, parses, ps)
        /\ UNCHANGED driver

ApiConfigure ==
    \E c \in JobConfigs :
        /\ driver.phase = "api"
        /\ driver.idx < MaxCalls
        /\ Configure(1, c[1], c[2], c[3])
        /\ Called

ApiDownload ==
    /\ driver.phase = "api"
    /\ driver.idx < MaxCalls
    /\ DownloadBegin(1)
    /\ Called

ApiCombine ==
    \E rc \in ExitCodes, wrote \in BOOLEAN :
        /\ driver.phase = "api"
        /\ driver.idx < MaxCalls
        /\ rc = 0 => wrote
        /\ Combine(1, rc, wrote)
        /\ Called

ApiStep ==
    /\ driver.phase = "api"
    /\ DownloadStep
    /\ UNCHANGED driver

NextJ == ApiNew \/ ApiConfigure \/ ApiDownload \/ ApiCombine \/ ApiStep

SpecJ == InitJ /\ [][NextJ]_vars

(***************************************************************************)
(* The __main__ driver over a batch file of up to MaxRows rows.  driver    *)
(* holds the loop it is in, the index of the item it is at and             *)
(* request_list; "exit" is the end of the script and "crashed" the         *)
(* traceback of an exception nothing catches.                              *)
(***************************************************************************)
BatchManifest ==
    Manifest(SharedBase, <<VideoRendition(1, 426, 240, 1)>>,
             <<AudioRendition(1, 48000, 128000, 1)>>)

\* the (video, audio) columns a row may hold
RowTokens == {<<"V240", "HI">>, <<"", "">>, <<"V1080", "MED">>, <<"V999", "LOW">>}

BatchRow(i, t) ==
    [video |-> t[1], audio |-> t[2], output |-> OutputFile(i), url |-> MasterUrl(i)]

BatchFiles ==
    {[i \in DOMAIN f |-> BatchRow(i, f[i])] :
        f \in UNION {[1..n -> RowTokens] : n \in 0..MaxRows}}

\* VideoQuality[video] if video else None
Lookup(names, token) ==
    IF token = "" THEN None
    ELSE IF token \in names THEN token
    ELSE "KeyError"

\* where the script starts
Start(file) ==
    IF file = <<>>
    THEN [phase |-> "exit", idx |-> 0, request_list |-> <<>>]
    ELSE [phase |-> "rows", idx |-> 1, request_list |-> <<>>]

\* a driver that downloads each job as soon as it is configured
AdvanceInterleaved(d) ==
    IF d.phase = "configure"
    THEN [phase |-> "download", idx |-> Len(d.request_list) + 1,
          request_list |-> Append(d.request_list, d.idx)]
    ELSE IF d.phase = "download"
    THEN IF d.idx < Len(rows)
         THEN [d EXCEPT !.phase = "rows", !.idx = @ + 1]
         ELSE [d EXCEPT !.phase = "combine", !.idx = 1]
    ELSE IF d.idx < Len(d.request_list)
         THEN [d EXCEPT !.idx = @ + 1]
         ELSE [d EXCEPT !.phase = "exit"]

\* where the script goes when the call it made has returned
Advance(d) ==
    IF d.phase = "configure"
    THEN IF d.idx < Len(rows)
         THEN [phase |-> "rows", idx |-> d.idx + 1,
               request_list |-> Append(d.request_list, d.idx)]
         ELSE [phase |-> "download", idx |-> 1,
               request_list |-> Append(d.request_list, d.idx)]
    ELSE IF d.idx < Len(d.request_list)
         THEN [d EXCEPT !.idx = @ + 1]
         ELSE IF d.phase = "download"
              THEN [d EXCEPT !.phase = "combine", !.idx = 1]
              ELSE [d EXCEPT !.phase = "exit"]

\* where the script goes when the call it made has raised
Crash(d) == [d EXCEPT !.phase = "crashed"]

AfterCall(d, err) == IF err = NoErr THEN Advance(d) ELSE Crash(d)

InitB ==
    /\ rows \in BatchFiles
    /\ master = [i \in DOMAIN rows |-> BatchManifest]
    /\ jobs = [i \in DOMAIN rows |-> NoJob]
    /\ files = <<>>
    /\ dirs = {<<"/">>}
    /\ call = Idle
    /\ result = [op |-> "none", job |-> 0, err |-> NoErr]
    /\ driver = Start(rows)
    /\ progress = [i \in DOMAIN rows |-> NoProgress]

\* download = VimeoDownload(output, url)
MainConstruct ==
    \E ms \in ManifestStatuses, parses \in BOOLEAN, ps \in SegStatuses :
        /\ driver.phase = "rows"
        /\ Construct(driver.idx, ms, parses, ps)
        /\ driver' = IF result'.err = NoErr
                     THEN [driver EXCEPT !.phase = "configure"]
                     ELSE Crash(driver)

\* the two enum lookups of a row that names no such quality
MainLookupFails ==
    /\ driver.phase = "configure"
    /\ \/ Lookup(VideoQualityNames, rows[driver.idx].video) = "KeyError"
       \/ Lookup(AudioQualityNames, rows[driver.idx].audio) = "KeyError"
    /\ result' = [op |-> "main", job |-> driver.idx, err |-> "KeyError"]
    /\ driver' = Crash(driver)
    /\ UNCHANGED <<rows, master, jobs, files, dirs, call, progress>>

\* download.configure_quality(True, audio_quality, video_quality) and append
MainConfigure ==
    /\ driver.phase = "configure"
    /\ Lookup(VideoQualityNames, rows[driver.idx].video) # "KeyError"
    /\ Lookup(AudioQualityNames, rows[driver.idx].audio) # "KeyError"
    /\ Configure(driver.idx, TRUE,
                 Lookup(AudioQualityNames, rows[driver.idx].audio),
                 Lookup(VideoQualityNames, rows[driver.idx].video))
    /\ driver' = AfterCall(driver, result'.err)

\* download.download_audio_video(), up to its first request
MainDownload ==
    /\ driver.phase = "download"
    /\ DownloadBegin(driver.request_list[driver.idx])
    /\ driver' = IF result'.err = "running" THEN driver ELSE Crash(driver)

\* the rest of download.download_audio_video()
MainDownloadStep ==
    /\ driver.phase = "download"
    /\ DownloadStep
    /\ driver' = IF call'.stage = "idle" THEN AfterCall(driver, result'.err)
                 ELSE driver

\* download.combine_audio_video()
MainCombine ==
    \E rc \in ExitCodes, wrote \in BOOLEAN :
        /\ driver.phase = "combine"
        /\ rc = 0 => wrote
        /\ Combine(driver.request_list[driver.idx], rc, wrote)
        /\ driver' = AfterCall(driver, result'.err)

NextB ==
    \/ MainConstruct
    \/ MainLookupFails
    \/ MainConfigure
    \/ MainDownload
    \/ MainDownloadStep
    \/ MainCombine

SpecB == InitB /\ [][NextB]_vars

(***************************************************************************)
(* Properties of quality selection, stated of the one job of SpecQ.        *)
(***************************************************************************)
QJob == jobs[1]

QM == jobs[1].master_json

\* the last call was configure_quality and got past its argument check
QConfigured ==
    /\ result.op = "configure_quality"
    /\ ~(result.interactive = FALSE
         /\ (result.audio_quality = None \/ result.video_quality = None))

\* the k-th smallest (k >= 1) of the bitrates, repetitions counted
KthBitrate(k) ==
    CHOOSE b \in Range(ListBitrates(QM)) :
        /\ Cardinality({i \in DOMAIN QM.audio : QM.audio[i].bitrate < b}) < k
        /\ Cardinality({i \in DOMAIN QM.audio : QM.audio[i].bitrate <= b}) >= k

\* C5: after configure_quality with audio tier HI, the bound audio rendition
\* is a rendition of the manifest and no rendition has a greater bitrate,
\* whatever the number of renditions and with repeated bitrates.
C5_HiBindsMaxBitrate ==
    (QConfigured /\ result.audio_quality = "HI")
        => /\ QJob.audio_json \in Range(QM.audio)
           /\ \A i \in DOMAIN QM.audio :
                 QM.audio[i].bitrate <= QJob.audio_json.bitrate

\* C5 witness: HI was requested where the maximum is not the last rendition
\* of the manifest, and the first rendition was bound.
C5_Witness ==
    /\ QConfigured /\ result.audio_quality = "HI"
    /\ Len(QM.audio) >= 2
    /\ QM.audio[1].bitrate > QM.audio[2].bitrate
    /\ QJob.audio_json = QM.audio[1]

C4_Case ==
    /\ result.op = "configure_quality"
    /\ result.interactive = FALSE
    /\ result.audio_quality \in AudioQualityNames
    /\ result.video_quality \in VideoQualityNames \ {"VMAX"}

C4_Requested == VideoQualityValue(result.video_quality)

C4_Exact == {i \in DOMAIN QM.video : QM.video[i].height = C4_Requested}

\* renditions whose height h has 0.95*H <= h <= 1.05*H
C4_AroundRequest ==
    {i \in DOMAIN QM.video :
        /\ 95 * C4_Requested <= 100 * QM.video[i].height
        /\ 100 * QM.video[i].height <= 105 * C4_Requested}

\* renditions whose height h has 0.95*h <= H <= 1.05*h
C4_AroundRendition ==
    {i \in DOMAIN QM.video :
        /\ 95 * QM.video[i].height <= 100 * C4_Requested
        /\ 100 * C4_Requested <= 105 * QM.video[i].height}

\* C4 (as stated): exact match first, else the first rendition with
\* 0.95*H <= h <= 1.05*H, else failure.
C4_Original ==
    C4_Case =>
        IF C4_Exact # {}
        THEN result.err = NoErr /\ QJob.video_json = QM.video[Min(C4_Exact)]
        ELSE IF C4_AroundRequest # {}
        THEN result.err = NoErr /\ QJob.video_json = QM.video[Min(C4_AroundRequest)]
        ELSE result.err = "ValueError"

\* the audio tier resolves: MED needs a second audio rendition
C4_AudioResolves == result.audio_quality = "MED" => Len(QM.audio) >= 2

C4_Selects ==
    (C4_Case /\ C4_AudioResolves) =>
        IF C4_Exact # {}
        THEN result.err = NoErr /\ QJob.video_json = QM.video[Min(C4_Exact)]
        ELSE IF C4_AroundRendition # {}
        THEN result.err = NoErr /\ QJob.video_json = QM.video[Min(C4_AroundRendition)]
        ELSE result.err = "ValueError"

\* a call that fails leaves the video binding as it was
C4_FailureBindsNothing ==
    (result'.op = "configure_quality" /\ result'.err # NoErr)
        => jobs'[1].video_json = jobs[1].video_json

\* C4 (amended): a non-interactive configure_quality whose audio tier
\* resolves binds the first rendition of height exactly H when one exists;
\* otherwise the first rendition in manifest order whose height h satisfies
\* 0.95*h <= H <= 1.05*h; otherwise it fails with ValueError, and a failing
\* call leaves the video binding unchanged.
C4_FuzzySelection == []C4_Selects /\ [][C4_FailureBindsNothing]_vars

\* C4 witness: no exact match, and a fuzzy match that is not the first
\* rendition of the manifest was bound.
C4_Witness ==
    /\ C4_Case /\ C4_AudioResolves
    /\ C4_Exact = {}
    /\ C4_AroundRendition # {}
    /\ Min(C4_AroundRendition) > 1
    /\ result.err = NoErr
    /\ QJob.video_json = QM.video[Min(C4_AroundRendition)]

\* C9: every entry of a menu shown is a rendition of the manifest, and the
\* rendition bound is the one displayed in the entry the user picked.
C9_MenuMatchesBinding ==
    (result.op = "configure_quality" /\ result.err = NoErr) =>
        /\ result.video_asked =>
              /\ \A k \in DOMAIN result.video_menu :
                    \E i \in DOMAIN QM.video :
                        result.video_menu[k]
                            = <<QM.video[i].width, QM.video[i].height>>
              /\ <<QJob.video_json.width, QJob.video_json.height>>
                    = result.video_menu[result.video_pick]
        /\ result.audio_asked =>
              /\ \A k \in DOMAIN result.audio_menu :
                    \E i \in DOMAIN QM.audio :
                        result.audio_menu[k]
                            = <<QM.audio[i].sample_rate, QM.audio[i].bitrate>>
              /\ <<QJob.audio_json.sample_rate, QJob.audio_json.bitrate>>
                    = result.audio_menu[result.audio_pick]

(***************************************************************************)
(* Properties of one job's download and mux, stated of the job of SpecJ.   *)
(***************************************************************************)
IsPrefix(a, b) == Len(a) <= Len(b) /\ a = SubSeq(b, 1, Len(a))

\* a download_audio_video call is running or was the last call to end
InDownload == result.op = "download_audio_video" /\ result.err \in {"running", NoErr}

AllSucceeded == \A n \in DOMAIN call.fetched : call.fetched[n].status = 200

RECURSIVE BodiesUpTo(_, _, _)
\* the bodies of segments 1..k of the bound rendition, in manifest order
BodiesUpTo(job, track, k) ==
    IF k = 0 THEN <<>>
    ELSE BodiesUpTo(job, track, k - 1) \o Body(SegmentUrl(job, track, k))

\* the decoded init segment followed by every segment body
WholeTrack(job, track) ==
    InitBytes(TrackJson(job, track))
        \o BodiesUpTo(job, track, Len(TrackJson(job, track).segments))

\* what the track file holds while segment call.seg is being written
TrackSoFar(job, track) ==
    InitBytes(TrackJson(job, track)) \o BodiesUpTo(job, track, call.seg - 1)
        \o (IF call.stage = track \o "_body"
            THEN SubSeq(Body(SegmentUrl(job, track, call.seg)), 1, call.chunk - 1)
            ELSE <<>>)

\* C1: when combine_audio_video ran the mux tool and the tool exited with a
\* non-zero status, the call ended in an error and both track files are
\* still on disk.
C1_MuxFailureKeepsTracks ==
    (result.op = "combine_audio_video" /\ result.muxed /\ result.exit # 0)
        => /\ result.err # NoErr
           /\ result.audio_file \in DOMAIN files
           /\ result.video_file \in DOMAIN files

\* C2: in download_audio_video every segment response with a status other
\* than 200 is the last request of the call, the call has ended in an error,
\* and nothing of that response is in the track file.
C2_NonSuccessFails ==
    result.op = "download_audio_video" =>
        \A n \in DOMAIN call.fetched :
            call.fetched[n].status # 200 =>
                /\ n = Len(call.fetched)
                /\ call.stage = "idle"
                /\ result.err \notin {"running", NoErr}
                /\ \A q \in DOMAIN files : \A x \in DOMAIN files[q] :
                      files[q][x].from # call.fetched[n].url

\* C7: while every segment request of a download_audio_video call has
\* succeeded, the audio file holds exactly the decoded init segment and the
\* bodies written so far in manifest order, then the same for the video
\* file, and when the call returns both files hold the whole track; what a
\* file held before the call is gone.
C7_TracksAssembledInOrder ==
    (InDownload /\ AllSucceeded) =>
        /\ call.stage \in {"audio", "audio_body"} =>
              /\ files[jobs[1].audio_file] = TrackSoFar(jobs[1], "audio")
              /\ IsPrefix(files[jobs[1].audio_file], WholeTrack(jobs[1], "audio"))
        /\ call.stage \in {"video", "video_body", "idle"} =>
              files[jobs[1].audio_file] = WholeTrack(jobs[1], "audio")
        /\ call.stage \in {"video", "video_body"} =>
              /\ files[jobs[1].video_file] = TrackSoFar(jobs[1], "video")
              /\ IsPrefix(files[jobs[1].video_file], WholeTrack(jobs[1], "video"))
        /\ call.stage = "idle" =>
              files[jobs[1].video_file] = WholeTrack(jobs[1], "video")

\* C7 witness: a download whose requests all succeeded has returned, for an
\* audio rendition of several segments, leaving both whole tracks.
C7_Witness ==
    /\ result.op = "download_audio_video" /\ result.err = NoErr
    /\ AllSucceeded
    /\ Len(jobs[1].audio_json.segments) >= 2
    /\ Len(call.fetched) = Len(jobs[1].audio_json.segments)
                              + Len(jobs[1].video_json.segments)
    /\ files[jobs[1].audio_file] = WholeTrack(jobs[1], "audio")
    /\ files[jobs[1].video_file] = WholeTrack(jobs[1], "video")

\* the directory of the manifest url
ManifestDir == SubSeq(rows[1].url, 1, Len(rows[1].url) - 1)

\* the urls of the segments of the manifest under a base url
SegmentUrls(base) ==
    LET m == jobs[1].master_json
        of(r) == {base \o r.base_url \o r.segments[k].url : k \in DOMAIN r.segments}
    IN  UNION {of(r) : r \in Range(m.video) \cup Range(m.audio)}

\* the base url is what one probe of the full scheme decided
BaseDecidedByProbe ==
    jobs[1].constructed =>
        /\ Len(progress[1].requests) = 2
        /\ progress[1].requests[2].url
              = ManifestDir \o master[1].base_url \o master[1].video[1].base_url
                    \o master[1].video[1].segments[1].url
        /\ jobs[1].base_url
              = IF progress[1].requests[2].status = 200
                THEN ManifestDir \o master[1].base_url
                ELSE ManifestDir
        /\ \A n \in DOMAIN call.fetched :
              /\ IsPrefix(jobs[1].base_url, call.fetched[n].url)
              /\ call.fetched[n].url \in SegmentUrls(jobs[1].base_url)

\* a manifest that was fetched and parsed gives a job, and one without a
\* shared base_url gives the manifest directory as base url
BaseWithoutSharedFragment ==
    (result.op = "new" /\ result.err \notin {"HTTPError", "JSONDecodeError"})
        => /\ jobs[1].constructed
           /\ "base_url" \notin DOMAIN master[1] => jobs[1].base_url = ManifestDir

BaseNeverChanges == jobs[1].constructed => jobs'[1].base_url = jobs[1].base_url

\* For manifests that have the base_url key: the base url is decided by the
\* one probe made at construction, is used by every segment request, and
\* never changes.
BaseUrlDecidedOnce == []BaseDecidedByProbe /\ [][BaseNeverChanges]_vars

\* C8: the base url of a job is decided once, at construction, by one probe
\* (shared base_url used when the probe succeeds, the manifest directory
\* alone when it fails or the manifest has no shared base_url), is used by
\* every later segment request and never changes.
C8_BaseUrlDecidedOnce ==
    []BaseDecidedByProbe /\ []BaseWithoutSharedFragment /\ [][BaseNeverChanges]_vars

\* a refused call changes nothing
RefusedChangesNothing ==
    (result'.op \in {"download_audio_video", "combine_audio_video"}
        /\ result'.err = "ValueError")
        => UNCHANGED <<jobs, files, dirs>>

\* the mux tool ran on two whole tracks of the bound renditions
MuxedWholeTracks ==
    (result.op = "combine_audio_video" /\ result.muxed) =>
        /\ result.audio_file = AudioFileName(jobs[1])
        /\ result.video_file = VideoFileName(jobs[1])
        /\ result.audio_in = WholeTrack(jobs[1], "audio")
        /\ result.video_in = WholeTrack(jobs[1], "video")

\* C10: over any sequence of calls on one job, combine_audio_video runs the
\* mux tool only on track files completely assembled for the currently bound
\* renditions, and a refused download or combine changes nothing.
C10_MuxOnlyCompleteTracks == []MuxedWholeTracks /\ [][RefusedChangesNothing]_vars

(***************************************************************************)
(* Properties of the batch driver, stated of SpecB.                        *)
(***************************************************************************)
\* row j was constructed and configured without error
Configured(j) == jobs[j].constructed /\ progress[j].configure = "ok"

\* the constructor or configure_quality of row j raised
ConfigurationFailed(j) ==
    \/ progress[j].requests # <<>> /\ ~jobs[j].constructed
    \/ progress[j].configure = "failed"

DownloadStarted(i) == progress[i].download # "none"

CombineStarted(i) == progress[i].combine # "none"

\* C3: when any job's download_audio_video has started, every row of the
\* batch has been constructed and configured; when any job's
\* combine_audio_video has started, every job's download has returned; and
\* once a construction or configuration has failed, no download and no
\* combine has started.
C3_PhasesInOrder ==
    /\ \A i \in DOMAIN rows :
          DownloadStarted(i) => \A j \in DOMAIN rows : Configured(j)
    /\ \A i \in DOMAIN rows :
          CombineStarted(i) => \A j \in DOMAIN rows : progress[j].download = "ok"
    /\ (\E j \in DOMAIN rows : ConfigurationFailed(j))
          => \A i \in DOMAIN rows : ~DownloadStarted(i) /\ ~CombineStarted(i)
    /\ (\E j \in DOMAIN rows : ConfigurationFailed(j)) => driver.phase = "crashed"

\* C3 witness: a batch of two rows where the first job is being muxed, both
\* downloads having returned.
C3_Witness ==
    /\ Len(rows) >= 2
    /\ CombineStarted(1)
    /\ ~CombineStarted(2)
    /\ progress[2].download = "ok"

====
